---- MODULE Spec2Model ----
(***************************************************************************)
(* Model of MumbleClient (src/unnamed/part_000): the connect() handshake,  *)
(* the three mutating commands createChannel / removeChannel /             *)
(* moveUserToChannel with their rxjs race() correlation, and the pinger.   *)
(*                                                                         *)
(* The socket (MumbleSocket), the directories (ChannelManager,             *)
(* UserManager) and the generated protobuf helpers are not part of the     *)
(* sources at hand; they are modelled at their boundary.                   *)
(***************************************************************************)
EXTENDS Integers, Sequences, FiniteSets, Bags, TLC

VARIABLES
    connectPc,      \* position of the async function connect()
    socket,         \* this.socket is set
    closed,         \* the transport has closed
    serverVersion,  \* this.serverVersion (NoVersion = undefined)
    user,           \* this.user (NoUser = undefined)
    initialized,    \* the `initialized` promise of connect()
    versionSub,     \* the Version subscription of connect() is active
    channels,       \* this.channels : channelId -> an entry is present
    users,          \* this.users : session -> channelId of the user
    req,            \* the promises returned by the mutating commands
    sent,           \* bag of the messages handed to socket.send
    pinger,         \* startPinger() has run
    pingInFlight,   \* ping sends whose promise has not completed
    ticks,          \* interval ticks so far
    nMsgs,          \* inbound packets delivered so far
    syncSeen,       \* a ServerSync packet has been delivered on the inbound stream
    firstSync       \* session carried by the first ServerSync packet (NoUser = none yet)

vars == << connectPc, socket, closed, serverVersion, user, initialized, versionSub,
           channels, users, req, sent, pinger, pingInFlight, ticks, nMsgs,
           syncSeen, firstSync >>

----------------------------------------------------------------------------
(* Bounds *)

\* external events of one run: inbound packets delivered plus timer ticks
MaxEvents == 3

\* the promises of the mutating calls the application issues, in call order
Reqs == {1, 2}

\* the arguments the application calls the commands with
CreateArgs == {<< 0, "General" >>, << 1, "Lobby" >>}
RemoveArgs == {1}
MoveArgs == {<< 1, 1 >>, << 2, 0 >>}

ChannelIds == {0, 1}
Sessions == {1, 2}
Names == {"General", "Lobby"}
Versions == {1, 2}
DenyTypes == {1, 2}
Reasons == {"", "not allowed"}

NoVersion == 0
NoUser == 0
Absent == -1
NoValue == -1

----------------------------------------------------------------------------
(* Inbound packets *)

VersionMsg(v) == [type |-> "Version", version |-> v]
ServerSyncMsg(s) == [type |-> "ServerSync", session |-> s]
ChannelStateMsg(c, p, n) ==
    [type |-> "ChannelState", channelId |-> c, parent |-> p, name |-> n]
ChannelRemoveMsg(c) == [type |-> "ChannelRemove", channelId |-> c]
UserStateMsg(s, c) == [type |-> "UserState", session |-> s, channelId |-> c]
PermissionDeniedMsg(t, r) == [type |-> "PermissionDenied", denyType |-> t, reason |-> r]

Inbound ==
    {VersionMsg(v) : v \in Versions}
    \cup {ServerSyncMsg(s) : s \in Sessions}
    \cup {ChannelStateMsg(c, p, n) : c \in ChannelIds, p \in ChannelIds, n \in Names}
    \cup {ChannelRemoveMsg(c) : c \in ChannelIds}
    \cup {UserStateMsg(s, c) : s \in Sessions, c \in ChannelIds}
    \cup {PermissionDeniedMsg(t, r) : t \in DenyTypes, r \in Reasons}

----------------------------------------------------------------------------
(* Directories: ChannelManager / UserManager, kept in step with the inbound *)
(* state messages.  They subscribe when `connected` fires, before any other *)
(* subscriber of socket.packet, so a packet updates them first.             *)

\* only the presence of a channel entry is read by the client
SyncChannels(chs, m) ==
    IF m.type = "ChannelState"
    THEN [chs EXCEPT ![m.channelId] = TRUE]
    ELSE IF m.type = "ChannelRemove"
    THEN [chs EXCEPT ![m.channelId] = FALSE]
    ELSE chs

SyncUsers(usrs, m) ==
    IF m.type = "UserState"
    THEN [usrs EXCEPT ![m.session] = m.channelId]
    ELSE usrs

\* this.channels.byId(id): the id of the entry found, Absent for undefined
byId(chs, id) == IF id \in DOMAIN chs /\ chs[id] THEN id ELSE Absent

\* this.users.bySession(s): the session of the entry found, NoUser for undefined
bySession(usrs, s) == IF s \in DOMAIN usrs /\ usrs[s] # Absent THEN s ELSE NoUser

----------------------------------------------------------------------------
(* Error messages *)

\* permissionDenied_DenyTypeToJSON of the generated protobuf module
permissionDenied_DenyTypeToJSON(t) ==
    CASE t = 0 -> "Text"
      [] t = 1 -> "Permission"
      [] t = 2 -> "SuperUser"
      [] t = 3 -> "ChannelName"
      [] OTHER -> "UNRECOGNIZED"

DenyReason_NoFallback(m) == m.reason

\* isEmpty(packet.reason) ? permissionDenied_DenyTypeToJSON(packet.type) : packet.reason
DenyReason(m) ==
    IF m.reason = "" THEN permissionDenied_DenyTypeToJSON(m.denyType) ELSE m.reason

CreateDeniedMessage(m) == "failed to create channel (" \o DenyReason(m) \o ")"
RemoveDeniedMessage(m) == "failed to remove channel (" \o DenyReason(m) \o ")"
MoveDeniedMessage(m) == "failed to remove channel (" \o DenyReason(m) \o ")"

NoSocketMessage == "no socket"
NoSuchUserMessage(s) == "no such user (session=" \o ToString(s) \o ")"

----------------------------------------------------------------------------
(* Promises of the mutating commands *)

NoRequest ==
    [op |-> "none", parent |-> 0, name |-> "", channelId |-> 0, session |-> 0,
     status |-> "none", value |-> NoValue, error |-> "", subs |-> {},
     settles |-> 0]

\* resolve(v) / reject(e) of a Promise executor: only the first call settles it
Settle_Overwrite(q, st, val, err) ==
    [q EXCEPT !.status = st, !.value = val, !.error = err, !.settles = @ + 1]

Settle(q, st, val, err) ==
    IF q.status = "pending"
    THEN [q EXCEPT !.status = st, !.value = val, !.error = err, !.settles = @ + 1]
    ELSE q

Resolve(q, val) == Settle(q, "resolved", val, "")
Reject(q, err) == Settle(q, "rejected", NoValue, err)

----------------------------------------------------------------------------
(* The race() of a success pipe and a denial pipe over socket.packet *)

CreateSuccess(q, m) ==
    m.type = "ChannelState" /\ m.parent = q.parent /\ m.name = q.name

RemoveSuccess(q, m) ==
    m.type = "ChannelRemove" /\ m.channelId = q.channelId

MoveSuccess(q, m) ==
    m.type = "UserState" /\ m.session = q.session /\ m.channelId = q.channelId

SuccessMatches(q, m) ==
    CASE q.op = "createChannel" -> CreateSuccess(q, m)
      [] q.op = "removeChannel" -> RemoveSuccess(q, m)
      [] q.op = "moveUserToChannel" -> MoveSuccess(q, m)
      [] OTHER -> FALSE

DenialMatches_WrongType(m) == m.type = "ChannelRemove"

DenialMatches(m) == m.type = "PermissionDenied"

RaceEmits_DenialScoped(q, m) ==
    IF "success" \in q.subs /\ SuccessMatches(q, m) THEN "success"
    ELSE IF "denial" \in q.subs /\ DenialMatches(m) /\ q.op = "removeChannel"
    THEN "denial"
    ELSE "none"

\* which pipe of the race emits for packet m: the first pipe to emit wins
RaceEmits(q, m) ==
    IF "success" \in q.subs /\ SuccessMatches(q, m) THEN "success"
    ELSE IF "denial" \in q.subs /\ DenialMatches(m) THEN "denial"
    ELSE "none"

\* race() unsubscribes the losing pipe; take(1) completes the winner, and the
\* success pipe of moveUserToChannel has no take(1)
SubsAfter(q, w) ==
    CASE w = "none" -> q.subs
      [] w = "denial" -> {}
      [] w = "success" -> IF q.op = "moveUserToChannel" THEN {"success"} ELSE {}

\* the subscriber callbacks
CreateOnPacket_ByParent(q, m, chs) ==
    IF m.type = "PermissionDenied"
    THEN Reject(q, CreateDeniedMessage(m))
    ELSE IF byId(chs, q.parent) # Absent
         THEN Resolve(q, byId(chs, q.parent))
         ELSE q

CreateOnPacket(q, m, chs) ==
    IF m.type = "PermissionDenied"
    THEN Reject(q, CreateDeniedMessage(m))
    ELSE IF byId(chs, m.channelId) # Absent
         THEN Resolve(q, byId(chs, m.channelId))
         ELSE q

RemoveOnPacket(q, m) ==
    IF m.type = "PermissionDenied"
    THEN Reject(q, RemoveDeniedMessage(m))
    ELSE Resolve(q, NoValue)

MoveOnPacket(q, m, usrs) ==
    IF m.type = "PermissionDenied"
    THEN Reject(q, MoveDeniedMessage(m))
    ELSE IF bySession(usrs, q.session) # NoUser
         THEN Resolve(q, bySession(usrs, q.session))
         ELSE q

OnPacket(q, m, chs, usrs) ==
    CASE q.op = "createChannel" -> CreateOnPacket(q, m, chs)
      [] q.op = "removeChannel" -> RemoveOnPacket(q, m)
      [] q.op = "moveUserToChannel" -> MoveOnPacket(q, m, usrs)
      [] OTHER -> q

\* one request observing one packet, the directories being already updated
Observe(q, m, chs, usrs) ==
    LET w == RaceEmits(q, m) IN
    IF w = "none" THEN q
    ELSE [OnPacket(q, m, chs, usrs) EXCEPT !.subs = SubsAfter(q, w)]

----------------------------------------------------------------------------
(* Outbound messages *)

AuthenticateOut == [type |-> "Authenticate"]
VersionOut == [type |-> "Version"]
PingOut == [type |-> "Ping"]
ChannelStateOut(p, n) == [type |-> "ChannelState", parent |-> p, name |-> n]
ChannelRemoveOut(c) == [type |-> "ChannelRemove", channelId |-> c]
UserStateOut(s, c) == [type |-> "UserState", session |-> s, channelId |-> c]

----------------------------------------------------------------------------
Init ==
    /\ connectPc = "idle"
    /\ socket = FALSE
    /\ closed = FALSE
    /\ serverVersion = NoVersion
    /\ user = NoUser
    /\ initialized = "none"
    /\ versionSub = FALSE
    /\ channels = [c \in ChannelIds |-> FALSE]
    /\ users = [s \in Sessions |-> Absent]
    /\ req = [r \in Reqs |-> NoRequest]
    /\ sent = EmptyBag
    /\ pinger = FALSE
    /\ pingInFlight = 0
    /\ ticks = 0
    /\ nMsgs = 0
    /\ syncSeen = FALSE
    /\ firstSync = NoUser

----------------------------------------------------------------------------
(* connect() *)

\* connect() is called and awaits tlsConnect(...)
ConnectStart ==
    /\ connectPc = "idle"
    /\ connectPc' = "tlsConnect"
    /\ UNCHANGED << socket, closed, serverVersion, user, initialized, versionSub,
                    channels, users, req, sent, pinger, pingInFlight, ticks, nMsgs, syncSeen, firstSync >>

\* tlsConnect rejects: connect() rejects
TlsFailed ==
    /\ connectPc = "tlsConnect"
    /\ connectPc' = "rejected"
    /\ UNCHANGED << socket, closed, serverVersion, user, initialized, versionSub,
                    channels, users, req, sent, pinger, pingInFlight, ticks, nMsgs, syncSeen, firstSync >>

TlsConnected_NoInitialized ==
    /\ connectPc = "tlsConnect"
    /\ socket' = TRUE
    /\ versionSub' = TRUE
    /\ sent' = sent (+) SetToBag({AuthenticateOut})
    /\ connectPc' = "authenticate"
    /\ UNCHANGED << closed, serverVersion, user, initialized, channels, users, req,
                    pinger, pingInFlight, ticks, nMsgs, syncSeen, firstSync >>

\* tlsConnect resolves: the socket is stored, the Version and ServerSync
\* subscriptions are made, and authenticate() hands Authenticate to the socket
TlsConnected ==
    /\ connectPc = "tlsConnect"
    /\ socket' = TRUE
    /\ versionSub' = TRUE
    /\ initialized' = "waiting"
    /\ sent' = sent (+) SetToBag({AuthenticateOut})
    /\ connectPc' = "authenticate"
    /\ UNCHANGED << closed, serverVersion, user, channels, users, req, pinger,
                    pingInFlight, ticks, nMsgs, syncSeen, firstSync >>

\* the Authenticate send completes: sendVersion() hands Version to the socket
AuthenticateSent ==
    /\ connectPc = "authenticate"
    /\ sent' = sent (+) SetToBag({VersionOut})
    /\ connectPc' = "sendVersion"
    /\ UNCHANGED << socket, closed, serverVersion, user, initialized, versionSub,
                    channels, users, req, pinger, pingInFlight, ticks,
                    nMsgs, syncSeen, firstSync >>

VersionSent_PingerBeforeVersion ==
    /\ connectPc = "authenticate"
    /\ ~pinger
    /\ pinger' = TRUE
    /\ UNCHANGED << connectPc, socket, closed, serverVersion, user, initialized,
                    versionSub, channels, users, req, sent, pingInFlight, ticks,
                    nMsgs, syncSeen, firstSync >>

\* the Version send completes: startPinger(), then connect() awaits `initialized`
VersionSent ==
    /\ connectPc = "sendVersion"
    /\ pinger' = TRUE
    /\ connectPc' = "awaitInitialized"
    /\ UNCHANGED << socket, closed, serverVersion, user, initialized, versionSub,
                    channels, users, req, sent, pingInFlight, ticks,
                    nMsgs, syncSeen, firstSync >>

\* `return await initialized` can return once the promise is fulfilled
InitializedFulfilled_NoAwait == TRUE

InitializedFulfilled == initialized = "done"

ConnectReturn ==
    /\ connectPc = "awaitInitialized"
    /\ InitializedFulfilled
    /\ connectPc' = "resolved"
    /\ UNCHANGED << socket, closed, serverVersion, user, initialized, versionSub,
                    channels, users, req, sent, pinger, pingInFlight, ticks, nMsgs, syncSeen, firstSync >>

----------------------------------------------------------------------------
(* Inbound delivery: one packet emitted by socket.packet to every subscriber *)

VersionOnPacket_Once(m) ==
    IF versionSub /\ m.type = "Version" /\ serverVersion = NoVersion
    THEN m.version
    ELSE serverVersion

\* the Version subscription of connect()
VersionOnPacket(m) ==
    IF versionSub /\ m.type = "Version" THEN m.version ELSE serverVersion

InitializedEmits_NoTake(m) == initialized # "none" /\ m.type = "ServerSync"

\* the ServerSync pipe of connect(): filter, tap, take(1)
InitializedEmits(m) == initialized = "waiting" /\ m.type = "ServerSync"

\* the packet goes to the first request it matches only
Deliver_Unicast(m) ==
    /\ socket
    /\ ~closed
    /\ nMsgs + ticks < MaxEvents
    /\ nMsgs' = nMsgs + 1
    /\ syncSeen' = (syncSeen \/ m.type = "ServerSync")
    /\ firstSync' = IF m.type = "ServerSync" /\ ~syncSeen THEN m.session ELSE firstSync
    /\ channels' = SyncChannels(channels, m)
    /\ users' = SyncUsers(users, m)
    /\ serverVersion' = VersionOnPacket(m)
    /\ user' = IF InitializedEmits(m) THEN bySession(users', m.session) ELSE user
    /\ initialized' = IF InitializedEmits(m) THEN "done" ELSE initialized
    /\ req' = [r \in Reqs |->
                  IF \E r2 \in Reqs : r2 < r /\ RaceEmits(req[r2], m) # "none"
                  THEN req[r]
                  ELSE Observe(req[r], m, channels', users')]
    /\ UNCHANGED << connectPc, socket, closed, versionSub, sent, pinger,
                    pingInFlight, ticks >>

Deliver(m) ==
    /\ socket
    /\ ~closed
    /\ nMsgs + ticks < MaxEvents
    /\ nMsgs' = nMsgs + 1
    /\ syncSeen' = (syncSeen \/ m.type = "ServerSync")
    /\ firstSync' = IF m.type = "ServerSync" /\ ~syncSeen THEN m.session ELSE firstSync
    /\ channels' = SyncChannels(channels, m)
    /\ users' = SyncUsers(users, m)
    /\ serverVersion' = VersionOnPacket(m)
    /\ user' = IF InitializedEmits(m) THEN bySession(users', m.session) ELSE user
    /\ initialized' = IF InitializedEmits(m) THEN "done" ELSE initialized
    /\ req' = [r \in Reqs |-> Observe(req[r], m, channels', users')]
    /\ UNCHANGED << connectPc, socket, closed, versionSub, sent, pinger,
                    pingInFlight, ticks >>

\* the transport closes: nothing more arrives on socket.packet
Close ==
    /\ socket
    /\ ~closed
    /\ closed' = TRUE
    /\ UNCHANGED << connectPc, socket, serverVersion, user, initialized, versionSub,
                    channels, users, req, sent, pinger, pingInFlight, ticks, nMsgs, syncSeen, firstSync >>

----------------------------------------------------------------------------
(* The mutating commands *)

\* request slots are used in order, one call each
Free(r) == req[r].op = "none" /\ \A r2 \in Reqs : r2 < r => req[r2].op # "none"

Pending(op, p, n, c, s) ==
    [op |-> op, parent |-> p, name |-> n, channelId |-> c, session |-> s,
     status |-> "pending", value |-> NoValue, error |-> "",
     subs |-> {}, settles |-> 0]

\* race(...).subscribe(...)
Subscribe(q) == [q EXCEPT !.subs = {"success", "denial"}]

CreateChannelCall_NoSocketCheck(p, n) ==
    [q |-> Subscribe(Pending("createChannel", p, n, 0, 0)),
     out |-> SetToBag({ChannelStateOut(p, n)})]

CreateChannelCall(p, n) ==
    LET q == Pending("createChannel", p, n, 0, 0) IN
    IF ~socket
    THEN [q |-> Reject(q, NoSocketMessage), out |-> EmptyBag]
    ELSE [q |-> Subscribe(q), out |-> SetToBag({ChannelStateOut(p, n)})]

RemoveChannelCall_SendOnly(c) ==
    LET q == Pending("removeChannel", 0, "", c, 0) IN
    IF ~socket
    THEN [q |-> Reject(q, NoSocketMessage), out |-> EmptyBag]
    ELSE [q |-> q, out |-> SetToBag({ChannelRemoveOut(c)})]

RemoveChannelCall(c) ==
    LET q == Pending("removeChannel", 0, "", c, 0) IN
    IF ~socket
    THEN [q |-> Reject(q, NoSocketMessage), out |-> EmptyBag]
    ELSE [q |-> Subscribe(q), out |-> SetToBag({ChannelRemoveOut(c)})]

MoveUserToChannelCall_NoShortCircuit(s, c) ==
    LET q == Pending("moveUserToChannel", 0, "", c, s) IN
    IF ~socket
    THEN [q |-> Reject(q, NoSocketMessage), out |-> EmptyBag]
    ELSE IF bySession(users, s) = NoUser
    THEN [q |-> Reject(q, NoSuchUserMessage(s)), out |-> EmptyBag]
    ELSE [q |-> Subscribe(q), out |-> SetToBag({UserStateOut(s, c)})]

MoveUserToChannelCall(s, c) ==
    LET q == Pending("moveUserToChannel", 0, "", c, s) IN
    IF ~socket
    THEN [q |-> Reject(q, NoSocketMessage), out |-> EmptyBag]
    ELSE IF bySession(users, s) = NoUser
    THEN [q |-> Reject(q, NoSuchUserMessage(s)), out |-> EmptyBag]
    ELSE IF users[s] = c
    THEN [q |-> Resolve(q, bySession(users, s)), out |-> EmptyBag]
    ELSE [q |-> Subscribe(q), out |-> SetToBag({UserStateOut(s, c)})]

Issue_Optimistic(r, call) ==
    /\ Free(r)
    /\ req' = [req EXCEPT ![r] = call.q]
    /\ sent' = sent (+) call.out
    /\ users' = IF call.q.op = "moveUserToChannel" /\ call.q.status = "pending"
                THEN [users EXCEPT ![call.q.session] = call.q.channelId]
                ELSE users
    /\ UNCHANGED << connectPc, socket, closed, serverVersion, user, initialized,
                    versionSub, channels, pinger, pingInFlight, ticks, nMsgs,
                    syncSeen, firstSync >>

Issue(r, call) ==
    /\ Free(r)
    /\ req' = [req EXCEPT ![r] = call.q]
    /\ sent' = sent (+) call.out
    /\ UNCHANGED << connectPc, socket, closed, serverVersion, user, initialized,
                    versionSub, channels, users, pinger, pingInFlight, ticks, nMsgs, syncSeen, firstSync >>

CreateChannel(r, p, n) == Issue(r, CreateChannelCall(p, n))
RemoveChannel(r, c) == Issue(r, RemoveChannelCall(c))
MoveUserToChannel(r, s, c) == Issue(r, MoveUserToChannelCall(s, c))

----------------------------------------------------------------------------
(* The pinger: interval(pingInterval).pipe(exhaustMap(() => this.ping())) *)

\* exhaustMap drops a tick while the previous inner promise is not completed
TickSends_MergeMap == TRUE

TickSends == pingInFlight = 0

Tick ==
    /\ pinger
    /\ nMsgs + ticks < MaxEvents
    /\ ticks' = ticks + 1
    /\ IF TickSends
       THEN /\ sent' = sent (+) SetToBag({PingOut})
            /\ pingInFlight' = pingInFlight + 1
       ELSE UNCHANGED << sent, pingInFlight >>
    /\ UNCHANGED << connectPc, socket, closed, serverVersion, user, initialized,
                    versionSub, channels, users, req, pinger, nMsgs, syncSeen, firstSync >>

\* the promise of a ping send completes
PingSent ==
    /\ pingInFlight > 0
    /\ pingInFlight' = pingInFlight - 1
    /\ UNCHANGED << connectPc, socket, closed, serverVersion, user, initialized,
                    versionSub, channels, users, req, sent, pinger, ticks, nMsgs, syncSeen, firstSync >>

\* Ping messages handed to socket.send so far
pingsSent == CopiesIn(PingOut, sent)

----------------------------------------------------------------------------
Next ==
    \/ ConnectStart
    \/ TlsFailed
    \/ TlsConnected
    \/ AuthenticateSent
    \/ VersionSent
    \/ ConnectReturn
    \/ \E m \in Inbound : Deliver(m)
    \/ Close
    \/ \E r \in Reqs, a \in CreateArgs : CreateChannel(r, a[1], a[2])
    \/ \E r \in Reqs, c \in RemoveArgs : RemoveChannel(r, c)
    \/ \E r \in Reqs, a \in MoveArgs : MoveUserToChannel(r, a[1], a[2])
    \/ Tick
    \/ PingSent

Spec == Init /\ [][Next]_vars

----------------------------------------------------------------------------
(* Properties *)

\* the step is a call of a mutating command that takes request slot r
Called(r) == req[r].op = "none" /\ req'[r].op # "none"

\* request r is pending with both pipes of its race subscribed
Racing(r) == req[r].status = "pending" /\ req[r].subs = {"success", "denial"}

Settled(r) == req[r].status \in {"resolved", "rejected"}

\* the step delivers an inbound packet
Delivered == nMsgs' = nMsgs + 1

\* the PermissionDenied packets
Denials == {m \in Inbound : m.type = "PermissionDenied"}

\* C1: connect() never resolves before a ServerSync packet has been observed on
\* the inbound stream, whatever else (Version packets, other packets) arrived.
C1_ConnectAfterServerSync == connectPc = "resolved" => syncSeen

C1_Witness ==
    connectPc = "resolved" /\ syncSeen /\ serverVersion # NoVersion

\* C2: a request is settled at most once: once it has resolved or failed, no
\* later step (in particular no later matching packet) changes its status, its
\* value or its error, and no second settlement takes effect.
C2_ResolveOnce ==
    [][\A r \in Reqs :
          /\ req'[r].settles <= 1
          /\ Settled(r) =>
                /\ req'[r].status = req[r].status
                /\ req'[r].value = req[r].value
                /\ req'[r].error = req[r].error
                /\ req'[r].settles = req[r].settles]_vars

\* a moveUserToChannel request that resolved from a UserState packet and whose
\* success pipe is still subscribed (it observes later matching packets)
C2_Witness ==
    \E r \in Reqs :
        /\ req[r].op = "moveUserToChannel"
        /\ req[r].status = "resolved"
        /\ req[r].subs = {"success"}
        /\ req[r].settles = 1

\* C3: when a PermissionDenied packet arrives while a request is still racing
\* (no packet matching its success predicate has arrived), the request fails,
\* exactly once; and a failed request never changes again, also when a packet
\* matching its success predicate arrives afterwards.
C3_DenialFirstFailsOnce ==
    [][\A r \in Reqs :
          /\ (Racing(r) /\ Delivered) =>
                \A m \in Denials :
                    Deliver(m) =>
                        /\ req'[r].status = "rejected"
                        /\ req'[r].settles = 1
                        /\ req'[r].subs = {}
          /\ req[r].status = "rejected" => req'[r] = req[r]]_vars

\* a moveUserToChannel request failed by a denial, with the user now in the
\* destination channel: the matching UserState packet arrived after the denial
\* (before the call it would have resolved the call at once, between the call
\* and the denial it would have won the race)
C3_Witness ==
    \E r \in Reqs :
        /\ req[r].op = "moveUserToChannel"
        /\ req[r].status = "rejected"
        /\ req[r].error = "failed to remove channel (SuperUser)"
        /\ req[r].settles = 1
        /\ users[req[r].session] = req[r].channelId

\* C4: moveUserToChannel(s, c) called while the directory entry of s has
\* channelId c sends nothing, subscribes to nothing and resolves at once with
\* that user, who is left unchanged.
C4_MoveNoOp ==
    [][\A r \in Reqs :
          ( /\ Called(r)
            /\ req'[r].op = "moveUserToChannel"
            /\ users[req'[r].session] = req'[r].channelId ) =>
                /\ sent' = sent
                /\ req'[r].subs = {}
                /\ req'[r].status = "resolved"
                /\ req'[r].value = req'[r].session
                /\ users' = users]_vars

\* a resolved moveUserToChannel although no UserState message was ever sent
C4_Witness ==
    \E r \in Reqs :
        /\ req[r].op = "moveUserToChannel"
        /\ req[r].status = "resolved"
        /\ req[r].value = req[r].session
        /\ CopiesIn(UserStateOut(req[r].session, req[r].channelId), sent) = 0

\* C5: at most one Ping send is in flight at any time, and the number of Ping
\* messages sent never exceeds the number of ticks (a tick during a send in
\* flight is dropped, not queued).
C5_PingSkipIfBusy == pingInFlight <= 1 /\ pingsSent <= ticks

\* two ticks, the second during the first send: one Ping sent, one in flight
C5_Witness == ticks = 2 /\ pingsSent = 1 /\ pingInFlight = 1

\* C6: when a ChannelState packet with the parent and name of a createChannel
\* request arrives while the request is still racing, the request resolves to
\* the channel whose id is the packet's channelId.
C6_CreateResolvesToChannel ==
    [][\A r \in Reqs :
          (req[r].op = "createChannel" /\ Racing(r) /\ Delivered) =>
              \A c \in ChannelIds :
                  Deliver(ChannelStateMsg(c, req[r].parent, req[r].name)) =>
                      /\ req'[r].status = "resolved"
                      /\ req'[r].value = c]_vars

\* createChannel(0, "General") resolved to channel 1
C6_Witness ==
    \E r \in Reqs :
        /\ req[r].op = "createChannel"
        /\ req[r].parent = 0
        /\ req[r].name = "General"
        /\ req[r].status = "resolved"
        /\ req[r].value = 1

\* the text a denial is expected to carry: the reason, or else the name of the
\* denial type
C7_Text(m) ==
    IF m.reason # "" THEN m.reason
    ELSE IF m.denyType = 1 THEN "Permission" ELSE "SuperUser"

\* C7 as claimed: a request matched by a PermissionDenied packet fails with an
\* error whose message is the reason, or the stringified denial type when the
\* reason is empty.
C7_MessageIsReason ==
    [][\A r \in Reqs :
          (Racing(r) /\ Delivered) =>
              \A m \in Denials :
                  Deliver(m) =>
                      /\ req'[r].status = "rejected"
                      /\ req'[r].error = C7_Text(m)]_vars

\* C7 amended: the message is "failed to create channel (R)" for createChannel
\* and "failed to remove channel (R)" for removeChannel and moveUserToChannel,
\* R being the reason, or the stringified denial type when the reason is empty.
C7_MessageWrapsReason ==
    [][\A r \in Reqs :
          (Racing(r) /\ Delivered) =>
              \A m \in Denials :
                  Deliver(m) =>
                      /\ req'[r].status = "rejected"
                      /\ req'[r].error =
                            IF req[r].op = "createChannel"
                            THEN "failed to create channel (" \o C7_Text(m) \o ")"
                            ELSE "failed to remove channel (" \o C7_Text(m) \o ")"]_vars

\* removeChannel denied with type SuperUser and an empty reason
C7_Witness ==
    \E r \in Reqs :
        /\ req[r].op = "removeChannel"
        /\ req[r].status = "rejected"
        /\ req[r].error = "failed to remove channel (SuperUser)"

\* C8 as claimed: when the transport closes, every pending request is rejected.
C8_CloseRejectsPending ==
    [][(~closed /\ closed') =>
          \A r \in Reqs : req[r].status = "pending" => req'[r].status = "rejected"]_vars

\* C9: while no socket exists, every mutating call made so far was rejected
\* with "no socket", holds no subscription, and nothing has been sent.
C9_NoSocketFailsFast ==
    ~socket =>
        /\ sent = EmptyBag
        /\ \A r \in Reqs :
              req[r].op # "none" =>
                  /\ req[r].status = "rejected"
                  /\ req[r].error = "no socket"
                  /\ req[r].subs = {}

\* a createChannel and a moveUserToChannel, both called before the socket exists
C9_Witness ==
    /\ ~socket
    /\ \E r1, r2 \in Reqs :
          /\ req[r1].op = "createChannel"
          /\ req[r2].op = "moveUserToChannel"
          /\ req[r1].status = "rejected"
          /\ req[r2].status = "rejected"

\* some id the call refers to has no directory entry
C10_RefMissing(q) ==
    CASE q.op = "createChannel" -> byId(channels, q.parent) = Absent
      [] q.op = "removeChannel" -> byId(channels, q.channelId) = Absent
      [] q.op = "moveUserToChannel" ->
            bySession(users, q.session) = NoUser \/ byId(channels, q.channelId) = Absent
      [] OTHER -> FALSE

\* C10 as claimed: a call that refers to a session id or channel id without a
\* directory entry fails (with a no-such-entity error).
C10_MissingEntityFails ==
    [][\A r \in Reqs :
          (Called(r) /\ socket /\ C10_RefMissing(req'[r])) =>
              req'[r].status = "rejected"]_vars

\* C11 as claimed: once the transport has closed, no Ping message is sent any
\* more, on any later tick.
C11_NoPingAfterClose ==
    [][closed => pingsSent' = pingsSent]_vars

C13_ServerVersionSetOnce ==
    [][serverVersion # NoVersion => serverVersion' = serverVersion]_vars

\* C13 amended: the recorded server version is that of the latest Version
\* packet: every Version packet replaces it, and nothing else changes it.
C13_ServerVersionIsLatest ==
    [][/\ Delivered => \A v \in Versions :
                          Deliver(VersionMsg(v)) => serverVersion' = v
       /\ serverVersion' # serverVersion =>
              \E v \in Versions : Deliver(VersionMsg(v))]_vars

\* version 2 recorded when two packets have been delivered, neither of them a
\* ServerSync packet nor a state packet that left an entry
C13_Witness ==
    serverVersion = 2 /\ nMsgs = 2 /\ ~syncSeen
        /\ \A c \in ChannelIds : ~channels[c]
        /\ \A s \in Sessions : users[s] = Absent
        /\ \A r \in Reqs : req[r].op = "none"

\* C14 as claimed: a request that has resolved or failed holds no subscription
\* on the inbound stream any more.
C14_SettledHoldsNoListener ==
    \A r \in Reqs : Settled(r) => req[r].subs = {}

\* the inbound packets that carry channel or user state
StatePackets ==
    {m \in Inbound : m.type \in {"ChannelState", "ChannelRemove", "UserState"}}

\* C15: the directories change only in a step that delivers a ChannelState,
\* ChannelRemove or UserState packet; calling a mutating command leaves both
\* directories as they are.
C15_DirectoriesFollowInbound ==
    [][/\ (channels' # channels \/ users' # users) =>
              \E m \in StatePackets : Deliver(m)
       /\ \A r \in Reqs :
              Called(r) => (channels' = channels /\ users' = users)]_vars

\* a moveUserToChannel still pending after its request was sent, the user
\* being recorded in another channel than the destination
C15_Witness ==
    \E r \in Reqs :
        /\ req[r].op = "moveUserToChannel"
        /\ req[r].status = "pending"
        /\ CopiesIn(UserStateOut(req[r].session, req[r].channelId), sent) = 1
        /\ users[req[r].session] \notin {Absent, req[r].channelId}

\* C16: one PermissionDenied packet fails every request that is pending when
\* it arrives.
C16_DenialFailsAllPending ==
    [][Delivered =>
          \A m \in Denials :
              Deliver(m) =>
                  \A r \in Reqs :
                      req[r].status = "pending" =>
                          /\ req'[r].status = "rejected"
                          /\ req'[r].subs = {}]_vars

\* a createChannel and a removeChannel both failed by the only packet delivered
C16_Witness ==
    /\ nMsgs = 1
    /\ \E r1, r2 \in Reqs :
          /\ req[r1].op = "createChannel"
          /\ req[r2].op = "removeChannel"
          /\ req[r1].error = "failed to create channel (not allowed)"
          /\ req[r2].error = "failed to remove channel (not allowed)"

\* C17 as claimed: when connect() has resolved, this.user is the directory
\* entry of the session carried by the first ServerSync packet.
C17_UserIsDirectoryEntry ==
    connectPc = "resolved" => user = bySession(users, firstSync)

\* C17 amended: this.user is the entry the directory held for the session of
\* the first ServerSync packet when that packet was delivered (undefined when
\* it held none); it is undefined before, and never changes afterwards.
C17_UserLookedUpAtFirstSync ==
    [][/\ initialized # "done" => user = NoUser
       /\ (initialized = "waiting" /\ Delivered) =>
              \A s \in Sessions :
                  Deliver(ServerSyncMsg(s)) =>
                      (user' = bySession(users, s) /\ initialized' = "done")
       /\ initialized = "done" => user' = user
       /\ connectPc' = "resolved" => initialized' = "done"]_vars

\* connect() resolved with this.user the user of the first ServerSync packet,
\* after a further packet
C17_Witness ==
    /\ connectPc = "resolved"
    /\ user # NoUser
    /\ user = firstSync
    /\ nMsgs = 3

\* C18: when connect() has resolved, the Authenticate and the Version message
\* have been sent; and the ServerSync subscription exists from the moment the
\* first of them is sent, so that every ServerSync packet delivered fulfils
\* `initialized`.
C18_HandshakeSentAndSyncObserved ==
    /\ connectPc = "resolved" =>
          (CopiesIn(AuthenticateOut, sent) = 1 /\ CopiesIn(VersionOut, sent) = 1)
    /\ (CopiesIn(AuthenticateOut, sent) > 0 \/ CopiesIn(VersionOut, sent) > 0) =>
          initialized # "none"
    /\ syncSeen => initialized = "done"

\* connect() resolved, both handshake messages sent, `initialized` fulfilled
C18_Witness ==
    /\ connectPc = "resolved"
    /\ CopiesIn(AuthenticateOut, sent) = 1
    /\ CopiesIn(VersionOut, sent) = 1
    /\ initialized = "done"

C20_SameArgsResolveTogether ==
    [][\A r1, r2 \in Reqs :
          ( /\ r1 # r2
            /\ req[r1].op = "createChannel"
            /\ req[r2].op = "createChannel"
            /\ req[r1].parent = req[r2].parent
            /\ req[r1].name = req[r2].name
            /\ req[r1].status = "pending"
            /\ req[r2].status = "pending"
            /\ Delivered ) =>
              \A c \in ChannelIds :
                  Deliver(ChannelStateMsg(c, req[r1].parent, req[r1].name)) =>
                      /\ req'[r1].status = "resolved"
                      /\ req'[r2].status = "resolved"
                      /\ req'[r1].value = c
                      /\ req'[r2].value = c]_vars

\* two createChannel(1, "Lobby") resolved to channel 0 by the only packet delivered
C20_Witness ==
    /\ nMsgs = 1
    /\ \A r \in Reqs :
          /\ req[r].op = "createChannel"
          /\ req[r].parent = 1
          /\ req[r].name = "Lobby"
          /\ req[r].status = "resolved"
          /\ req[r].value = 0

====
